---- MODULE Spec2Model ----
(***************************************************************************)
(* Model of the research-task orchestrators of benwbooth/lunchbox:        *)
(*   scripts/scrape_rom_sources.py   (temp file + validation + rename)    *)
(*   scripts/scrape_all_emulators.py (worker writes the final file)       *)
(* Platform names are sequences of ASCII codes, files are records, the    *)
(* external worker ("claude -p ...") is an opaque process that may write   *)
(* any content to the path named in its prompt and then exit.             *)
(***************************************************************************)
EXTENDS Integers, Sequences, FiniteSets, TLC

VARIABLES
    script,         \* which orchestrator script the behaviour runs
    db,             \* the platforms table of games.db, in name order
    args,           \* parsed command line of the current run
    mainpc,         \* position of main()
    exit,           \* exit status of the last run
    runs,           \* number of runs started so far
    all_platforms,  \* get_platforms() result of the current run
    platforms,      \* all_platforms without SKIP_PLATFORMS
    remaining,      \* remaining_names / remaining
    idx,            \* items consumed from remaining (loop index / iterator)
    batch,          \* iterations done of the initial "for _ in range(parallel)"
    pending,        \* futures not yet popped (parallel mode)
    done_futures,   \* result of wait(..., FIRST_COMPLETED) being iterated
    queue,          \* work items submitted but not yet picked by a pool thread
    ex,             \* per subject: the process_platform invocation
    w,              \* per subject: the worker process
    canon,          \* OUTPUT_DIR/<key>.csv
    temp,           \* OUTPUT_DIR/.<key>.csv.tmp
    combined,       \* COMBINED_CSV
    success_count,
    fail_count,
    interrupted,    \* an external interrupt has arrived in this run
    dispatched,     \* history: subjects handed to process_platform, in order
    canon0,         \* history: canon at the start of the run
    intInflight,    \* history: invocations in flight when the interrupt arrived
    prev,           \* history: how the previous run ended
    note,           \* what the --platform lookup of main() printed
    commits,        \* history: renames of this run, per artifact path
    canonInt,       \* history: the canonical files when the interrupt of
                    \* scrape_rom_sources.py arrived
    author          \* history: per temp path, the platform whose worker of
                    \* this run wrote the file there (None: no file, or a
                    \* file left by an earlier run)

vars ==
    << script, db, args, mainpc, exit, runs, all_platforms, platforms, remaining,
       idx, batch, pending, done_futures, queue, ex, w, canon, temp, combined,
       success_count, fail_count, interrupted, dispatched, canon0,
       intInflight, prev, note, commits, canonInt, author >>

(***************************************************************************)
(* Bounds                                                                  *)
(***************************************************************************)
MaxParallel ==
    2

MaxLimit ==
    1

MaxRuns ==
    2

(***************************************************************************)
(* Strings as sequences of ASCII codes                                     *)
(***************************************************************************)
None ==
    << 0 >>

NoFile ==
    [hdr |-> << "<nofile>" >>, nrows |-> 0, err |-> FALSE]

Lower(c) ==
    IF c \in 65..90 THEN c + 32 ELSE c

IsAlnum(c) ==
    c \in 48..57 \/ c \in 97..122

RECURSIVE LowerStr(_)
LowerStr(s) ==
    IF s = << >> THEN << >> ELSE << Lower(Head(s)) >> \o LowerStr(Tail(s))

RECURSIVE DropWhileNot(_)
DropWhileNot(s) ==
    IF s = << >> \/ IsAlnum(Head(s)) THEN s ELSE DropWhileNot(Tail(s))

\* re.sub(r'[^a-z0-9]+', '_', name)
RECURSIVE SubNonAlnum(_)
SubNonAlnum(s) ==
    IF s = << >> THEN << >>
    ELSE IF IsAlnum(Head(s)) THEN << Head(s) >> \o SubNonAlnum(Tail(s))
    ELSE << 95 >> \o SubNonAlnum(DropWhileNot(Tail(s)))

RECURSIVE DropUnderscores(_)
DropUnderscores(s) ==
    IF s = << >> \/ Head(s) # 95 THEN s ELSE DropUnderscores(Tail(s))

\* re.sub(r'_+', '_', name)
RECURSIVE SubUnderscores(_)
SubUnderscores(s) ==
    IF s = << >> THEN << >>
    ELSE IF Head(s) # 95 THEN << Head(s) >> \o SubUnderscores(Tail(s))
    ELSE << 95 >> \o SubUnderscores(DropUnderscores(Tail(s)))

RECURSIVE RStrip(_)
RStrip(s) ==
    IF s = << >> \/ s[Len(s)] # 95 THEN s ELSE RStrip(SubSeq(s, 1, Len(s) - 1))

\* name.strip('_')
Strip(s) ==
    RStrip(DropUnderscores(s))

\* The stem of the file name; the ".csv" suffix is carried by the maps
\* canon (OUTPUT_DIR/<stem>.csv) and temp (OUTPUT_DIR/.<stem>.csv.tmp).
platform_to_filename(platform) ==
    Strip(SubUnderscores(SubNonAlnum(LowerStr(platform))))

(***************************************************************************)
(* The external catalog (games.db): rows (name, game_count), as returned   *)
(* by "ORDER BY p.name ASC".                                               *)
(***************************************************************************)
N3D ==
    << 51, 68 >>                              \* "3D"

NSC ==
    << 83, 32, 67 >>                          \* "S C"

NSdC ==
    << 83, 45, 67 >>                          \* "S-C"

NWindows ==
    << 87, 105, 110, 100, 111, 119, 115 >>    \* "Windows"

NZx ==
    << 90, 120 >>                             \* "Zx"

NNope ==
    << 78, 111 >>                             \* "No": in no catalog

\* a catalog with two platforms that share a file name
DB1 ==
    << [name |-> N3D, games |-> 40],
       [name |-> NSC, games |-> 40],
       [name |-> NSdC, games |-> 12] >>

\* a catalog with a platform of SKIP_PLATFORMS and one below --min-games
DB2 ==
    << [name |-> N3D, games |-> 40],
       [name |-> NWindows, games |-> 40],
       [name |-> NZx, games |-> 2] >>

Catalogs ==
    { DB1, DB2 }

Names ==
    UNION { { d[i].name : i \in 1..Len(d) } : d \in Catalogs }

\* platform_to_filename of every platform of the catalogs, computed once
Filenames ==
    [n \in Names |-> platform_to_filename(n)]

K(platform) ==
    Filenames[platform]

Keys ==
    { K(n) : n \in Names }

SKIP_PLATFORMS ==
    { NWindows }

DefaultMinGames ==
    10

RowNames(s) ==
    [i \in 1..Len(s) |-> s[i].name]

Range(s) ==
    { s[i] : i \in 1..Len(s) }

\* the query without its HAVING clause
get_platforms_all(min_games) ==
    db

\* lines 114-126
get_platforms(min_games) ==
    LET Enough(r) == r.games >= min_games
    IN  SelectSeq(db, Enough)

(***************************************************************************)
(* Files                                                                   *)
(***************************************************************************)
CSV_HEADER ==
    << "platform", "source_name", "url", "content_type", "set_format",
       "download_method", "size", "requires_login", "requires_bios",
       "bios_included", "bios_source", "recommended", "notes" >>

\* What a worker may leave in the file it was told to write.
FileV1 ==
    [hdr |-> CSV_HEADER, nrows |-> 1, err |-> FALSE]

FileV2 ==
    [hdr |-> CSV_HEADER \o << "extra" >>, nrows |-> 2, err |-> FALSE]

FileHeaderOnly ==
    [hdr |-> CSV_HEADER, nrows |-> 0, err |-> FALSE]

FileMissingCol ==
    [hdr |-> SubSeq(CSV_HEADER, 1, 12), nrows |-> 1, err |-> FALSE]

\* one record can be decoded, reading the next raises (bad encoding)
FileCorrupt ==
    [hdr |-> CSV_HEADER, nrows |-> 1, err |-> TRUE]

\* What a killed run leaves at a temp path.  The orchestrator removes such a
\* file without reading it; it is modelled by one content, which would pass
\* the validation and is none of the contents a worker of the run writes.
FileStale ==
    [hdr |-> CSV_HEADER \o << "stale" >>, nrows |-> 1, err |-> FALSE]

WorkerOutputs ==
    { FileV1, FileV2, FileHeaderOnly, FileMissingCol, FileCorrupt }

\* scrape_all_emulators.py: CSV_HEADER.split(',')
EMU_CSV_HEADER ==
    << "platform", "emulator_name", "supported_os", "homepage", "winget_id",
       "homebrew_formula", "flatpak_id", "retroarch_core", "save_directory",
       "save_extensions", "notes" >>

EmuFileV1 ==
    [hdr |-> EMU_CSV_HEADER, nrows |-> 1, err |-> FALSE]

\* a file the worker has not finished writing
EmuFilePartial ==
    [hdr |-> EMU_CSV_HEADER, nrows |-> 1, err |-> TRUE]

\* a file with the header line and no record
EmuFileHeaderOnly ==
    [hdr |-> EMU_CSV_HEADER, nrows |-> 0, err |-> FALSE]

EmuWorkerOutputs ==
    { EmuFileV1, EmuFilePartial, EmuFileHeaderOnly }

Outputs ==
    IF script = "rom" THEN WorkerOutputs ELSE EmuWorkerOutputs


Cols(c) ==
    Range(c.hdr)

\* The validation of process_platform, lines 215-230, on an existing file:
\* "ok", or the failure it reports.
Validate(c) ==
    IF ~(Range(CSV_HEADER) \subseteq Cols(c)) THEN "missing"
    ELSE IF c.err THEN "invalid"
    ELSE IF c.nrows = 0 THEN "norows"
    ELSE "ok"

IsValid(c) ==
    /\ c # NoFile
    /\ Range(CSV_HEADER) \subseteq Cols(c)
    /\ ~c.err
    /\ c.nrows >= 1

\* no platform is ever taken as done
is_done_never(platform) ==
    FALSE

is_done(platform) ==
    canon[K(platform)] # NoFile

(***************************************************************************)
(* combine_all_csvs                                                        *)
(***************************************************************************)
RECURSIVE SeqLess(_, _)
SeqLess(a, b) ==
    IF a = << >> THEN b # << >>
    ELSE IF b = << >> THEN FALSE
    ELSE IF Head(a) # Head(b) THEN Head(a) < Head(b)
    ELSE SeqLess(Tail(a), Tail(b))

RECURSIVE SortedSeq(_)
SortedSeq(S) ==
    IF S = {} THEN << >>
    ELSE LET m == CHOOSE x \in S : \A y \in S \ {x} : SeqLess(x, y)
         IN  << m >> \o SortedSeq(S \ {m})

\* the records DictReader yields for one artifact file before it ends or
\* raises: each a dict whose keys are the columns of the file's header
FileRows(k, c) ==
    [i \in 1..c.nrows |-> [src |-> k, i |-> i, cols |-> Cols(c)]]

\* the name of COMBINED_CSV in OUTPUT_DIR
CombinedName ==
    [kind |-> "combined", key |-> << >>]

\* the directory OUTPUT_DIR: artifact files <key>.csv, temp files
\* .<key>.csv.tmp and the combined file
Listing(store, old) ==
    { [kind |-> "csv", key |-> k] : k \in { j \in Keys : store[j] # NoFile } }
    \cup { [kind |-> "tmp", key |-> k] : k \in { j \in Keys : temp[j] # NoFile } }
    \cup (IF old.hdr # << >> THEN { CombinedName } ELSE {})

\* OUTPUT_DIR.glob("*.csv")
GlobCsv(listing) ==
    { e \in listing : e.kind \in {"csv", "combined"} }

\* lines 153-154: the combined file itself is not read
NotCombined(e) ==
    e.kind # "combined"

\* sorted(OUTPUT_DIR.glob("*.csv")), without the combined file
csv_files(store, old) ==
    LET glob == { e \in GlobCsv(Listing(store, old)) : NotCombined(e) }
        ks == SortedSeq({ e.key : e \in glob })
    IN  [i \in 1..Len(ks) |-> CHOOSE e \in glob : e.key = ks[i]]

\* the records read from one file of the directory
ReadRows(e, store, old) ==
    IF e.kind = "csv" THEN FileRows(e.key, store[e.key])
    ELSE IF e.kind = "tmp" THEN FileRows(e.key, temp[e.key])
    ELSE [j \in 1..Len(old.rows) |->
             [src |-> old.rows[j].src, i |-> old.rows[j].i,
              cols |-> Range(old.hdr)]]

RECURSIVE AllRows(_, _, _)
AllRows(es, store, old) ==
    IF es = << >> THEN << >>
    ELSE ReadRows(Head(es), store, old) \o AllRows(Tail(es), store, old)

\* what is written for a record when the fields are not normalised
clean_row_asis(row, fieldnames) ==
    [src |-> row.src, i |-> row.i,
     fields |-> [f \in row.cols |-> TRUE]]

\* line 175: clean_row = {k: row.get(k, '') for k in fieldnames}; fields[f]
\* is TRUE for a value of the source record, FALSE for the empty string
clean_row(row, fieldnames) ==
    [src |-> row.src, i |-> row.i,
     fields |-> [f \in Range(fieldnames) |-> f \in row.cols]]

Fieldnames ==
    IF script = "rom" THEN CSV_HEADER ELSE EMU_CSV_HEADER

\* lines 165-175: what is at COMBINED_CSV after the loop has read all_rows
WriteCombined(all_rows, old) ==
    IF all_rows = << >> THEN old
    ELSE [hdr  |-> Fieldnames,
          rows |-> [j \in 1..Len(all_rows) |->
                       clean_row(all_rows[j], Fieldnames)]]

\* the file combine_all_csvs leaves at COMBINED_CSV (csv_files and all_rows
\* are each computed once, as in the code)
combine_all_csvs(store, old) ==
    CHOOSE out \in
        { WriteCombined(all_rows, old) :
            all_rows \in { AllRows(files, store, old) :
                             files \in { csv_files(store, old) } } } : TRUE

\* lines 165-167 and 177: the count combine_all_csvs returns
combine_count(store, old) ==
    Len(AllRows(csv_files(store, old), store, old))

NoCombined ==
    [hdr |-> << >>, rows |-> << >>]

(***************************************************************************)
(* State of one run                                                        *)
(***************************************************************************)
ExNone ==
    [pc |-> "none", rows |-> 0, msg |-> ""]

ExDone ==
    [pc |-> "done", rows |-> 0, msg |-> ""]

\* st: none / running; told: the path named in the prompt
NoProc ==
    [st |-> "none", told |-> "none"]

\* the exit status of a worker process: zero, non-zero
ReturnCodes ==
    {0, 1}

Platforms ==
    { None, NSC, NWindows, NZx, NNope }

Args ==
    [parallel : 1..MaxParallel, dry_run : BOOLEAN, platform : Platforms,
     combine_only : BOOLEAN, min_games : {DefaultMinGames}, limit : 0..MaxLimit]

NoArgs ==
    [parallel |-> 1, dry_run |-> FALSE, platform |-> None,
     combine_only |-> FALSE, min_games |-> DefaultMinGames, limit |-> 0]

NoNote ==
    << "", None >>

NoPrev ==
    [ok |-> FALSE, full |-> FALSE]

\* no temp file has an author
NoAuthor ==
    [k \in Keys |-> None]

\* a step of the orchestrator writes no temp file: a file that stays keeps
\* its author, a file that is removed has none
AuthorKept ==
    author' = [k \in Keys |-> IF temp'[k] = NoFile THEN None ELSE author[k]]

Init ==
    /\ script \in {"rom", "emu"}
    /\ db \in Catalogs
    /\ args = NoArgs
    /\ mainpc = "idle"
    /\ exit = "none"
    /\ runs = 0
    /\ all_platforms = << >>
    /\ platforms = << >>
    /\ remaining = << >>
    /\ idx = 0
    /\ batch = 0
    /\ pending = {}
    /\ done_futures = {}
    /\ queue = << >>
    /\ ex = [n \in Names |-> ExNone]
    /\ w = [n \in Names |-> NoProc]
    /\ canon = [k \in Keys |-> NoFile]
    /\ temp = [k \in Keys |-> NoFile]
    /\ combined = NoCombined
    /\ success_count = 0
    /\ fail_count = 0
    /\ interrupted = FALSE
    /\ dispatched = << >>
    /\ canon0 = [k \in Keys |-> NoFile]
    /\ intInflight = {}
    /\ prev = NoPrev
    /\ note = NoNote
    /\ commits = [k \in Keys |-> 0]
    /\ canonInt = [k \in Keys |-> NoFile]
    /\ author = NoAuthor

\* the state before the last of the MaxRuns runs, with an empty store
LiveInit ==
    /\ script \in {"rom", "emu"}
    /\ db \in Catalogs
    /\ args = NoArgs
    /\ mainpc = "idle"
    /\ exit = "none"
    /\ runs = MaxRuns - 1
    /\ all_platforms = << >>
    /\ platforms = << >>
    /\ remaining = << >>
    /\ idx = 0
    /\ batch = 0
    /\ pending = {}
    /\ done_futures = {}
    /\ queue = << >>
    /\ ex = [n \in Names |-> ExNone]
    /\ w = [n \in Names |-> NoProc]
    /\ canon = [k \in Keys |-> NoFile]
    /\ temp = [k \in Keys |-> NoFile]
    /\ combined = NoCombined
    /\ success_count = 0
    /\ fail_count = 0
    /\ interrupted = FALSE
    /\ dispatched = << >>
    /\ canon0 = [k \in Keys |-> NoFile]
    /\ intInflight = {}
    /\ prev = NoPrev
    /\ note = NoNote
    /\ commits = [k \in Keys |-> 0]
    /\ canonInt = [k \in Keys |-> NoFile]
    /\ author = NoAuthor


(***************************************************************************)
(* scrape_rom_sources.py: main() up to the scheduling loop                 *)
(***************************************************************************)
NotSkipped(r) ==
    r.name \notin SKIP_PLATFORMS

\* the slice forgotten
Take_all(s, n) ==
    s

\* s[:n]
Take(s, n) ==
    SubSeq(s, 1, IF n < Len(s) THEN n ELSE Len(s))

\* lines 281-292: what the lookup of --platform prints: nothing for a
\* platform of the filtered list, the note of line 286 for one that is only
\* in all_platforms, "Platform not found" of line 288 otherwise
platform_note(a, allp, plats) ==
    LET Named(r) == r.name = a.platform
    IN  IF a.platform = None THEN NoNote
        ELSE IF SelectSeq(plats, Named) # << >> THEN NoNote
        ELSE IF SelectSeq(allp, Named) # << >>
        THEN << "Note: normally skipped", a.platform >>
        ELSE << "Platform not found", a.platform >>

\* line 312 (emu: 269): the first line a dry run prints; the note keeps it
\* with the first subject of the list that follows
DryRunLine ==
    "Dry run - would process"

DryRun_never(a) ==
    FALSE

\* line 311 (emu: 268): if args.dry_run
DryRun(a) ==
    a.dry_run

\* lines 279-298: remaining_names; found is FALSE on "Platform not found"
remaining_names(a, allp, plats) ==
    LET Named(r) == r.name = a.platform
        NotDone(r) == ~is_done(r.name)
        match == SelectSeq(plats, Named)
        all_match == SelectSeq(allp, Named)
        names == IF a.platform # None
                 THEN IF match # << >> THEN << match[1].name >>
                      ELSE IF all_match # << >> THEN << all_match[1].name >>
                      ELSE << >>
                 ELSE RowNames(SelectSeq(plats, NotDone))
    IN  [found |-> a.platform = None \/ match # << >> \/ all_match # << >>,
         names |-> IF a.limit > 0 THEN Take(names, a.limit) ELSE names]

\* The end of a run (return from main, sys.exit, traceback, SIGKILL): the
\* process state is gone, the files stay.  prev keeps, for the next run,
\* whether this one was a complete normal run without failures (ok) and
\* whether --limit was off (full).
EndRun(st, a) ==
    /\ mainpc' = "idle"
    /\ exit' = st
    /\ args' = NoArgs
    /\ prev' = [ok   |-> /\ st = "0"
                         /\ ~a.combine_only
                         /\ ~a.dry_run
                         /\ a.platform = None
                         /\ ~interrupted
                         /\ fail_count = 0,
                full |-> a.limit = 0]
    /\ all_platforms' = << >>
    /\ platforms' = << >>
    /\ remaining' = << >>
    /\ idx' = 0
    /\ batch' = 0
    /\ pending' = {}
    /\ done_futures' = {}
    /\ queue' = << >>
    /\ ex' = [n \in Names |-> ExNone]
    /\ w' = [n \in Names |-> NoProc]
    /\ success_count' = 0
    /\ fail_count' = 0
    /\ interrupted' = FALSE
    /\ dispatched' = << >>
    /\ intInflight' = {}
    /\ canon0' = canon
    /\ commits' = [k \in Keys |-> 0]
    /\ canonInt' = [k \in Keys |-> NoFile]
    /\ author' = NoAuthor

\* lines 256-321
RomStart(a, db_ok) ==
    /\ script = "rom"
    /\ mainpc = "idle"
    /\ runs < MaxRuns
    /\ runs' = runs + 1
    /\ UNCHANGED << script, db, canon, temp, combined >>
    /\ LET allp == get_platforms(a.min_games)
           plats == SelectSeq(allp, NotSkipped)
           rem == remaining_names(a, allp, plats)
           Go(pc, ap, pl, rn) ==
               /\ mainpc' = pc
               /\ exit' = "run"
               /\ args' = a
               /\ all_platforms' = ap
               /\ platforms' = pl
               /\ remaining' = rn
               /\ canon0' = canon
               /\ UNCHANGED << idx, batch, pending, done_futures, queue, ex, w,
                               success_count, fail_count, interrupted,
                               dispatched, intInflight, prev, commits, canonInt,
                               author >>
       IN /\ note' =  IF a.combine_only \/ ~db_ok THEN NoNote
                      ELSE IF rem.found /\ rem.names # << >> /\ DryRun(a)
                      THEN << DryRunLine, rem.names[1] >>  \* lines 312-317
                      ELSE platform_note(a, allp, plats)
          /\ IF a.combine_only THEN Go("combine", << >>, << >>, << >>)
           ELSE IF ~db_ok THEN EndRun("1", a)       \* sqlite3 raises: traceback
           ELSE IF ~rem.found THEN EndRun("1", a)   \* line 292: sys.exit(1)
           ELSE IF rem.names = << >> THEN Go("combine", allp, plats, rem.names)
           ELSE IF DryRun(a) THEN EndRun("0", a)    \* line 319
           ELSE IF a.parallel = 1 THEN Go("seq", allp, plats, rem.names)
           ELSE Go("batch", allp, plats, rem.names)

(***************************************************************************)
(* scrape_rom_sources.py: process_platform                                 *)
(***************************************************************************)
Return(n, m, r) ==
    [ex EXCEPT ![n] = [pc |-> "ret", rows |-> r, msg |-> m]]

\* the unlink forgotten
Unlink_keep(k) ==
    temp

Unlink(k) ==
    [temp EXCEPT ![k] = NoFile]

\* lines 185-199: the call of process_platform up to the try statement,
\* with tmp_path.unlink(missing_ok=True) of line 199 (e: ex as the caller
\* leaves it)
PP_Enter(n, e) ==
    /\ ex' = [e EXCEPT ![n] = [pc |-> "try", rows |-> 0, msg |-> ""]]
    /\ temp' = IF script = "rom" THEN Unlink(K(n)) ELSE temp

\* the worker told the canonical path
PromptPath_final ==
    "out"

\* the path process_platform puts in the prompt (output_path=tmp_path)
PromptPath ==
    "tmp"

\* lines 202-206: subprocess.Popen, or the exception it raises (lines 245-247)
PP_Popen(n) ==
    /\ script = "rom"
    /\ ex[n].pc = "try"
    /\ \/ /\ w' = [w EXCEPT ![n] = [st |-> "running", told |-> PromptPath]]
          /\ ex' = [ex EXCEPT ![n].pc = "comm"]
          /\ UNCHANGED temp
       \/ /\ temp' = Unlink(K(n))
          /\ ex' = Return(n, "error", 0)
          /\ UNCHANGED w
    /\ UNCHANGED << script, db, args, mainpc, exit, runs, all_platforms, platforms,
                    remaining, idx, batch, pending, done_futures, queue,
                    canon, combined, success_count, fail_count, interrupted,
                    dispatched, canon0, intInflight, prev, note, commits, canonInt >>
    /\ AuthorKept

\* the exit status the check takes for success
validate_result_rc(c, rc) ==
    IF rc # 0 THEN "noout"
    ELSE IF c = NoFile THEN "noout"
    ELSE IF Validate(c) # "ok" THEN "invalid"
    ELSE "validated"

\* lines 207-230: what process_platform concludes when communicate() has
\* returned, from the temp file c alone; proc.returncode (rc) is never read
validate_result(c, rc) ==
    IF c = NoFile THEN "noout"
    ELSE IF Validate(c) # "ok" THEN "invalid"
    ELSE "validated"

\* lines 207-230: the worker exits with status rc and communicate() returns;
\* the existence check and the validation of the temp file
PP_Validate(n, rc) ==
    /\ script = "rom"
    /\ ex[n].pc = "comm"
    /\ w[n].st = "running"
    /\ w' = [w EXCEPT ![n] = NoProc]
    /\ LET c == temp[K(n)]
           v == validate_result(c, rc)
       IN  IF v = "noout"
           THEN /\ ex' = Return(n, "noout", 0)
                /\ UNCHANGED temp
           ELSE IF v = "invalid"
           THEN /\ ex' = Return(n, "invalid", 0)
                /\ temp' = Unlink(K(n))
           ELSE /\ ex' = [ex EXCEPT ![n] = [pc |-> "validated",
                                            rows |-> c.nrows, msg |-> ""]]
                /\ UNCHANGED temp
    /\ UNCHANGED << script, db, args, mainpc, exit, runs, all_platforms, platforms,
                    remaining, idx, batch, pending, done_futures, queue,
                    canon, combined, success_count, fail_count, interrupted,
                    dispatched, canon0, intInflight, prev, note, commits, canonInt >>
    /\ AuthorKept

\* lines 232-233: tmp_path.rename(output_path); a missing temp file raises
\* FileNotFoundError, handled at lines 245-247
PP_Rename(n) ==
    /\ script = "rom"
    /\ ex[n].pc = "validated"
    /\ IF temp[K(n)] = NoFile
       THEN /\ ex' = Return(n, "error", 0)
            /\ UNCHANGED << canon, temp, commits, canonInt >>
       ELSE /\ canon' = [canon EXCEPT ![K(n)] = temp[K(n)]]
            /\ temp' = Unlink(K(n))
            /\ commits' = [commits EXCEPT ![K(n)] = @ + 1]
            /\ ex' = Return(n, "created", ex[n].rows)
    /\ UNCHANGED << script, db, args, mainpc, exit, runs, all_platforms, platforms,
                    remaining, idx, batch, pending, done_futures, queue, w,
                    combined, success_count, fail_count, interrupted,
                    dispatched, canon0, intInflight, prev, note, canonInt >>
    /\ AuthorKept

\* lines 235-239: TimeoutExpired, proc.kill(), proc.wait(), unlink
PP_Timeout(n) ==
    /\ script = "rom"
    /\ ex[n].pc = "comm"
    /\ w[n].st = "running"
    /\ w' = [w EXCEPT ![n] = NoProc]
    /\ temp' = Unlink(K(n))
    /\ ex' = Return(n, "timeout", 0)
    /\ UNCHANGED << script, db, args, mainpc, exit, runs, all_platforms, platforms,
                    remaining, idx, batch, pending, done_futures, queue,
                    canon, combined, success_count, fail_count, interrupted,
                    dispatched, canon0, intInflight, prev, note, commits, canonInt >>
    /\ AuthorKept

(***************************************************************************)
(* The external worker process: it writes the file its prompt names       *)
(***************************************************************************)
Worker_Write(n, c) ==
    /\ w[n].st = "running"
    /\ IF w[n].told = "tmp"
       THEN /\ temp[K(n)] # c
            /\ temp' = [temp EXCEPT ![K(n)] = c]
            /\ UNCHANGED canon
       ELSE /\ canon[K(n)] # c
            /\ canon' = [canon EXCEPT ![K(n)] = c]
            /\ UNCHANGED temp
    /\ UNCHANGED << script, db, args, mainpc, exit, runs, all_platforms, platforms,
                    remaining, idx, batch, pending, done_futures, queue, ex, w,
                    combined, success_count, fail_count, interrupted,
                    dispatched, canon0, intInflight, prev, note, commits, canonInt >>
    /\ author' = IF w[n].told = "tmp" THEN [author EXCEPT ![K(n)] = n]
                                      ELSE author

(***************************************************************************)
(* The scheduling loops of main()                                          *)
(***************************************************************************)
Running ==
    {"try", "comm", "validated"}

InFlight ==
    { n \in Names : ex[n].pc \in Running }

ExAborted ==
    [pc |-> "aborted", rows |-> 0, msg |-> ""]

\* the invocation the main thread is inside of (sequential mode)
Current ==
    { n \in Names : ex[n].pc \in Running \cup {"ret"} }

Ok(n) ==
    ex[n].msg = "created"

Count(n) ==
    /\ success_count' = IF Ok(n) THEN success_count + 1 ELSE success_count
    /\ fail_count' = IF Ok(n) THEN fail_count ELSE fail_count + 1

\* the loop left at the first failure
SeqMore_untilFailure ==
    idx < Len(remaining) /\ fail_count = 0

\* line 328 (rom), 284 (emu): the for loop has a next platform
SeqMore ==
    idx < Len(remaining)

\* lines 328-330 (rom), 284-286 (emu): the next iteration of the for loop
\* calls process_platform; after the last one, line 370 (rom), 307 (emu)
Seq_Next ==
    /\ mainpc = "seq"
    /\ \A n \in Names : ex[n].pc \in {"none", "done"}
    /\ IF SeqMore
       THEN /\ idx' = idx + 1
            /\ PP_Enter(remaining[idx + 1], ex)
            /\ dispatched' = Append(dispatched, remaining[idx + 1])
            /\ UNCHANGED mainpc
       ELSE /\ mainpc' = "summary"
            /\ UNCHANGED << idx, ex, temp, dispatched >>
    /\ UNCHANGED << script, db, args, exit, runs, all_platforms, platforms,
                    remaining, batch, pending, done_futures, queue, w, canon,
                    combined, success_count, fail_count, interrupted,
                    canon0, intInflight, prev, note, commits, canonInt >>
    /\ AuthorKept

\* lines 330-336 (rom), 286-293 (emu): process_platform has returned
Seq_Collect(n) ==
    /\ mainpc = "seq"
    /\ ex[n].pc = "ret"
    /\ Count(n)
    /\ ex' = [ex EXCEPT ![n] = ExDone]
    /\ UNCHANGED << script, db, args, mainpc, exit, runs, all_platforms, platforms,
                    remaining, idx, batch, pending, done_futures, queue, w,
                    canon, temp, combined, interrupted, dispatched, canon0,
                    intInflight, prev, note, commits, canonInt >>
    /\ AuthorKept

\* p = next(remaining_iter, None); if p: pending[executor.submit(...)] = p
\* (pend, e: pending and ex as the caller leaves them)
SubmitNext(pend, e) ==
    IF idx < Len(remaining)
    THEN /\ idx' = idx + 1
         /\ IF remaining[idx + 1] # << >>
            THEN /\ queue' = Append(queue, remaining[idx + 1])
                 /\ pending' = pend \cup {remaining[idx + 1]}
                 /\ ex' = [e EXCEPT ![remaining[idx + 1]].pc = "queued"]
                 /\ dispatched' = Append(dispatched, remaining[idx + 1])
            ELSE /\ pending' = pend
                 /\ ex' = e
                 /\ UNCHANGED << queue, dispatched >>
    ELSE /\ pending' = pend
         /\ ex' = e
         /\ UNCHANGED << idx, queue, dispatched >>

\* lines 344-347: one iteration of "for _ in range(args.parallel)"
Par_Batch ==
    /\ script = "rom"
    /\ mainpc = "batch"
    /\ batch < args.parallel
    /\ batch' = batch + 1
    /\ SubmitNext(pending, ex)
    /\ mainpc' = IF batch + 1 = args.parallel THEN "wait" ELSE "batch"
    /\ UNCHANGED << script, db, args, exit, runs, all_platforms, platforms,
                    remaining, done_futures, w, canon, temp, combined,
                    success_count, fail_count, interrupted, canon0,
                    intInflight, prev, note, commits, canonInt >>
    /\ AuthorKept

\* lines 349-350: "while pending" and wait(pending, FIRST_COMPLETED)
Par_Wait ==
    /\ script = "rom"
    /\ mainpc = "wait"
    /\ IF pending = {}
       THEN /\ mainpc' = "summary"
            /\ UNCHANGED done_futures
       ELSE /\ \E n \in pending : ex[n].pc = "ret"
            /\ done_futures' = { n \in pending : ex[n].pc = "ret" }
            /\ mainpc' = "for"
    /\ UNCHANGED << script, db, args, exit, runs, all_platforms, platforms,
                    remaining, idx, batch, pending, queue, ex, w, canon, temp,
                    combined, success_count, fail_count, interrupted,
                    dispatched, canon0, intInflight, prev, note, commits, canonInt >>
    /\ AuthorKept

\* the next platform submitted only when the whole batch has finished
Refill_afterBatch(pend, e) ==
    IF pend = {}
    THEN SubmitNext(pend, e)
    ELSE /\ pending' = pend
         /\ ex' = e
         /\ UNCHANGED << idx, queue, dispatched >>

\* lines 361-364: submit next platform as each one completes
Refill(pend, e) ==
    SubmitNext(pend, e)

\* lines 351-364: one iteration of "for future in done_futures"
Par_Process(n) ==
    /\ script = "rom"
    /\ mainpc = "for"
    /\ n \in done_futures
    /\ Count(n)
    /\ Refill(pending \ {n}, [ex EXCEPT ![n] = ExDone])
    /\ done_futures' = done_futures \ {n}
    /\ mainpc' = IF done_futures = {n} THEN "wait" ELSE "for"
    /\ UNCHANGED << script, db, args, exit, runs, all_platforms, platforms,
                    remaining, batch, w, canon, temp, combined, interrupted,
                    canon0, intInflight, prev, note, commits, canonInt >>
    /\ AuthorKept

\* a pool that starts a thread for every work item
FreeThread_always ==
    TRUE

\* ThreadPoolExecutor(max_workers=args.parallel): fewer than max_workers
\* threads are busy
FreeThread ==
    Cardinality(InFlight) < args.parallel

\* a work queue that hands out the newest item first
WorkItem_last(q) ==
    q[Len(q)]

\* the pool's work queue is first in, first out
WorkItem(q) ==
    Head(q)

\* ThreadPoolExecutor(max_workers=args.parallel): a free pool thread takes
\* the oldest submitted work item and calls process_platform
Pool_Start(n) ==
    /\ queue # << >>
    /\ n = WorkItem(queue)
    /\ FreeThread
    /\ queue' = LET Other(m) == m # n IN SelectSeq(queue, Other)
    /\ PP_Enter(n, ex)
    /\ UNCHANGED << script, db, args, mainpc, exit, runs, all_platforms, platforms,
                    remaining, idx, batch, pending, done_futures, w, canon,
                    combined, success_count, fail_count, interrupted,
                    dispatched, canon0, intInflight, prev, note, commits, canonInt >>
    /\ AuthorKept

(***************************************************************************)
(* scrape_all_emulators.py                                                 *)
(***************************************************************************)
EmuArgs ==
    { a \in Args : a.limit = 0 }

\* lines 231-277
EmuStart(a, db_ok) ==
    /\ script = "emu"
    /\ mainpc = "idle"
    /\ runs < MaxRuns
    /\ runs' = runs + 1
    /\ UNCHANGED << script, db, canon, temp, combined >>
    /\ LET plats == RowNames(db)
           NotDone(p) == ~is_done(p)
           rem == IF a.platform # None THEN << a.platform >>
                  ELSE SelectSeq(plats, NotDone)
           Go(pc, pl, rn) ==
               /\ mainpc' = pc
               /\ exit' = "run"
               /\ args' = a
               /\ all_platforms' = << >>
               /\ platforms' = pl
               /\ remaining' = rn
               /\ canon0' = canon
               /\ UNCHANGED << idx, batch, pending, done_futures, queue, ex, w,
                               success_count, fail_count, interrupted,
                               dispatched, intInflight, prev, commits, canonInt,
                               author >>
       IN /\ note' =  IF a.combine_only \/ ~db_ok \/ a.platform = None
                         \/ a.platform \in Range(plats)
                      THEN IF ~a.combine_only /\ db_ok /\ rem # << >> /\ DryRun(a)
                           THEN << DryRunLine, rem[1] >>   \* lines 269-272
                           ELSE NoNote
                      ELSE << "Platform not found", a.platform >>
          /\ IF a.combine_only THEN Go("combine", << >>, << >>)
           ELSE IF ~db_ok THEN EndRun("1", a)       \* sqlite3 raises: traceback
           ELSE IF a.platform # None /\ a.platform \notin Range(plats)
           THEN EndRun("1", a)                      \* line 253: sys.exit(1)
           ELSE IF rem = << >> THEN EndRun("0", a)  \* line 266
           ELSE IF DryRun(a) THEN EndRun("0", a)    \* line 275
           ELSE IF a.parallel = 1 THEN Go("seq", plats, rem)
           ELSE Go("submit", plats, rem)

\* the path process_platform puts in the prompt (output_path=output_path)
EmuPromptPath ==
    "out"

\* lines 212-217: subprocess.run starts the worker, or raises (lines 227-228)
Emu_PP_Run(n) ==
    /\ script = "emu"
    /\ ex[n].pc = "try"
    /\ \/ /\ w' = [w EXCEPT ![n] = [st |-> "running", told |-> EmuPromptPath]]
          /\ ex' = [ex EXCEPT ![n].pc = "comm"]
       \/ /\ ex' = Return(n, "error", 0)
          /\ UNCHANGED w
    /\ UNCHANGED << script, db, args, mainpc, exit, runs, all_platforms, platforms,
                    remaining, idx, batch, pending, done_futures, queue,
                    canon, temp, combined, success_count, fail_count,
                    interrupted, dispatched, canon0, intInflight, prev, note, commits, canonInt >>
    /\ AuthorKept

\* lines 219-223: the worker has exited with returncode rc
Emu_PP_Result(n, rc) ==
    /\ script = "emu"
    /\ ex[n].pc = "comm"
    /\ w[n].st = "running"
    /\ w' = [w EXCEPT ![n] = NoProc]
    /\ ex' = IF rc = 0 /\ canon[K(n)] # NoFile
             THEN Return(n, "created", 0)
             ELSE Return(n, "failed", 0)
    /\ UNCHANGED << script, db, args, mainpc, exit, runs, all_platforms, platforms,
                    remaining, idx, batch, pending, done_futures, queue,
                    canon, temp, combined, success_count, fail_count,
                    interrupted, dispatched, canon0, intInflight, prev, note, commits, canonInt >>
    /\ AuthorKept

\* lines 225-226: subprocess.run kills the worker and raises TimeoutExpired
Emu_PP_Timeout(n) ==
    /\ script = "emu"
    /\ ex[n].pc = "comm"
    /\ w[n].st = "running"
    /\ w' = [w EXCEPT ![n] = NoProc]
    /\ ex' = Return(n, "timeout", 0)
    /\ UNCHANGED << script, db, args, mainpc, exit, runs, all_platforms, platforms,
                    remaining, idx, batch, pending, done_futures, queue,
                    canon, temp, combined, success_count, fail_count,
                    interrupted, dispatched, canon0, intInflight, prev, note, commits, canonInt >>
    /\ AuthorKept

\* line 297: one executor.submit of the dict comprehension
Emu_Submit ==
    /\ script = "emu"
    /\ mainpc = "submit"
    /\ IF idx < Len(remaining)
       THEN /\ idx' = idx + 1
            /\ queue' = Append(queue, remaining[idx + 1])
            /\ pending' = pending \cup {remaining[idx + 1]}
            /\ ex' = [ex EXCEPT ![remaining[idx + 1]].pc = "queued"]
            /\ dispatched' = Append(dispatched, remaining[idx + 1])
            /\ UNCHANGED mainpc
       ELSE /\ mainpc' = "as_completed"
            /\ UNCHANGED << idx, queue, pending, ex, dispatched >>
    /\ UNCHANGED << script, db, args, exit, runs, all_platforms, platforms,
                    remaining, batch, done_futures, w, canon, temp, combined,
                    success_count, fail_count, interrupted, canon0,
                    intInflight, prev, note, commits, canonInt >>
    /\ AuthorKept

\* lines 298-305: one iteration of "for i, future in as_completed(futures)"
Emu_Completed(n) ==
    /\ script = "emu"
    /\ mainpc = "as_completed"
    /\ n \in pending
    /\ ex[n].pc = "ret"
    /\ Count(n)
    /\ ex' = [ex EXCEPT ![n] = ExDone]
    /\ pending' = pending \ {n}
    /\ mainpc' = IF pending = {n} THEN "summary" ELSE "as_completed"
    /\ UNCHANGED << script, db, args, exit, runs, all_platforms, platforms,
                    remaining, idx, batch, done_futures, queue, w, canon, temp,
                    combined, interrupted, dispatched, canon0, intInflight,
                    prev, note, commits, canonInt >>
    /\ AuthorKept

\* main has no handler for KeyboardInterrupt.  Sequential mode:
\* subprocess.run kills the worker and re-raises, the traceback ends the
\* run.  Parallel mode: the main thread leaves the with block, whose
\* __exit__ is executor.shutdown(wait=True).
Emu_Interrupt ==
    /\ script = "emu"
    /\ mainpc \in {"seq", "submit", "as_completed"}
    /\ ~interrupted
    /\ IF mainpc = "seq"
       THEN /\ interrupted' = TRUE
            /\ intInflight' = InFlight
            /\ ex' = [n \in Names |->
                        IF n \in Current THEN ExAborted ELSE ex[n]]
            /\ w' = [n \in Names |-> NoProc]
            /\ mainpc' = "traceback"
            /\ UNCHANGED << script, db, args, exit, runs, all_platforms,
                            platforms, remaining, idx, batch, pending,
                            done_futures, queue, canon, temp, combined,
                            success_count, fail_count, dispatched, canon0,
                            prev, note, commits, canonInt >>
       ELSE /\ interrupted' = TRUE
            /\ intInflight' = InFlight
            /\ mainpc' = "shutdown"
            /\ UNCHANGED << script, db, args, exit, runs, all_platforms,
                            platforms, remaining, idx, batch, pending,
                            done_futures, queue, ex, w, canon, temp, combined,
                            success_count, fail_count, dispatched, canon0,
                            prev, note, commits, canonInt >>
    /\ AuthorKept

\* shutdown(wait=True) has returned; the KeyboardInterrupt propagates
Emu_Shutdown ==
    /\ script = "emu"
    /\ mainpc = "shutdown"
    /\ queue = << >>
    /\ InFlight = {}
    /\ mainpc' = "traceback"
    /\ UNCHANGED << script, db, args, exit, runs, all_platforms, platforms,
                    remaining, idx, batch, pending, done_futures, queue, ex, w,
                    canon, temp, combined, success_count, fail_count,
                    interrupted, dispatched, canon0, intInflight, prev, note, commits, canonInt >>
    /\ AuthorKept

(***************************************************************************)
(* External interrupt (SIGINT, raised as KeyboardInterrupt in the main     *)
(* thread) and the end of the run                                          *)
(***************************************************************************)
\* Sequential mode: the handler of lines 240-244 runs if the main thread is
\* inside the try of process_platform; at "try" proc is not bound yet, so
\* proc.kill() raises UnboundLocalError, which nothing catches.  Then
\* main's handler, line 366.
\* Parallel mode: the main thread leaves the with block, whose __exit__ is
\* executor.shutdown(wait=True).
Interrupt ==
    /\ script = "rom"
    /\ mainpc \in {"seq", "batch", "wait", "for"}
    /\ ~interrupted
    /\ IF mainpc = "seq"
       THEN IF \E n \in Current : ex[n].pc = "try"
            THEN /\ interrupted' = TRUE
                 /\ intInflight' = InFlight
                 /\ canonInt' = canon
                 /\ ex' = [n \in Names |->
                             IF n \in Current THEN ExAborted ELSE ex[n]]
                 /\ mainpc' = "traceback"
                 /\ UNCHANGED << script, db, args, exit, runs, all_platforms,
                                 platforms, remaining, idx, batch, pending,
                                 done_futures, queue, w, canon, temp, combined,
                                 success_count, fail_count, dispatched,
                                 canon0, prev, note, commits >>
            ELSE /\ interrupted' = TRUE
                 /\ intInflight' = InFlight
                 /\ canonInt' = canon
                 /\ ex' = [n \in Names |->
                             IF n \in Current THEN ExAborted ELSE ex[n]]
                 /\ w' = [n \in Names |->
                             IF n \in Current THEN NoProc ELSE w[n]]
                 /\ temp' = [k \in Keys |->
                             IF \E n \in Current :
                                   /\ K(n) = k
                                   /\ ex[n].pc \in {"comm", "validated"}
                             THEN NoFile ELSE temp[k]]
                 /\ mainpc' = "except"
                 /\ UNCHANGED << script, db, args, exit, runs, all_platforms,
                                 platforms, remaining, idx, batch, pending,
                                 done_futures, queue, canon, combined,
                                 success_count, fail_count, dispatched,
                                 canon0, prev, note, commits >>
       ELSE /\ interrupted' = TRUE
            /\ intInflight' = InFlight
            /\ canonInt' = canon
            /\ mainpc' = "shutdown"
            /\ UNCHANGED << script, db, args, exit, runs, all_platforms,
                            platforms, remaining, idx, batch, pending,
                            done_futures, queue, ex, w, canon, temp, combined,
                            success_count, fail_count, dispatched, canon0,
                            prev, note, commits >>
    /\ AuthorKept

\* executor.shutdown(wait=True) returns when every submitted work item has run
Shutdown ==
    /\ script = "rom"
    /\ mainpc = "shutdown"
    /\ queue = << >>
    /\ InFlight = {}
    /\ mainpc' = "except"
    /\ UNCHANGED << script, db, args, exit, runs, all_platforms, platforms,
                    remaining, idx, batch, pending, done_futures, queue, ex, w,
                    canon, temp, combined, success_count, fail_count,
                    interrupted, dispatched, canon0, intInflight, prev, note, commits, canonInt >>
    /\ AuthorKept

\* line 338: a second KeyboardInterrupt while the main thread waits in
\* executor.shutdown(wait=True), the __exit__ of the with block: the wait
\* is abandoned with pool threads still running and the interrupt reaches
\* main's handler, line 366
Interrupt_Again ==
    /\ script = "rom"
    /\ mainpc = "shutdown"
    /\ queue # << >> \/ InFlight # {}
    /\ mainpc' = "except"
    /\ UNCHANGED << script, db, args, exit, runs, all_platforms, platforms,
                    remaining, idx, batch, pending, done_futures, queue, ex, w,
                    canon, temp, combined, success_count, fail_count,
                    interrupted, dispatched, canon0, intInflight, prev, note,
                    commits, canonInt, author >>

DotCsv ==
    << 46, 99, 115, 118 >>                    \* ".csv"

DotTmp ==
    << 46, 116, 109, 112 >>                   \* ".tmp"

\* line 35: the file name of COMBINED_CSV, "all_rom_sources.csv"
CombinedFileName ==
    << 97, 108, 108, 95, 114, 111, 109, 95, 115, 111, 117, 114, 99, 101, 115 >> \o DotCsv

\* the file name of an entry of OUTPUT_DIR: platform_to_filename gives
\* <key>.csv (line 136), tmp_path is .<key>.csv.tmp (line 187)
FileName(e) ==
    IF e.kind = "csv" THEN e.key \o DotCsv
    ELSE IF e.kind = "tmp" THEN << 46 >> \o e.key \o DotCsv \o DotTmp
    ELSE CombinedFileName

\* a pattern that matches every file name
MatchTmp_any(name) ==
    TRUE

\* the pattern ".*.tmp" of line 252: a dot, anything, ".tmp"
MatchTmp(name) ==
    /\ Len(name) >= 5
    /\ name[1] = 46
    /\ SubSeq(name, Len(name) - 3, Len(name)) = DotTmp

\* line 252: OUTPUT_DIR.glob(".*.tmp")
GlobTmp(listing) ==
    { e \in listing : MatchTmp(FileName(e)) }

\* a glob pattern that matches no temp file
TmpGlob_none ==
    {}

\* line 252: the temp paths among the files OUTPUT_DIR.glob(".*.tmp") yields
TmpGlob ==
    { e.key : e \in { x \in GlobTmp(Listing(canon, combined)) : x.kind = "tmp" } }

\* lines 250-253 and 366-368: for tmp in OUTPUT_DIR.glob(".*.tmp"): unlink
cleanup_temp_files ==
    /\ script = "rom"
    /\ mainpc = "except"
    /\ temp' = [k \in Keys |-> IF k \in TmpGlob THEN NoFile ELSE temp[k]]
    /\ canon' = LET glob == GlobTmp(Listing(canon, combined))
                IN  [k \in Keys |-> IF [kind |-> "csv", key |-> k] \in glob
                                    THEN NoFile ELSE canon[k]]
    /\ combined' = IF CombinedName \in GlobTmp(Listing(canon, combined))
                   THEN NoCombined ELSE combined
    /\ mainpc' = "summary"
    /\ UNCHANGED << script, db, args, exit, runs, all_platforms, platforms,
                    remaining, idx, batch, pending, done_futures, queue, ex, w,
                    success_count, fail_count, interrupted,
                    dispatched, canon0, intInflight, prev, note, commits, canonInt >>
    /\ AuthorKept

\* line 370: print(f"Done! Success: ..., Failed: ...")
Summary ==
    /\ mainpc = "summary"
    /\ mainpc' = "combine"
    /\ UNCHANGED << script, db, args, exit, runs, all_platforms, platforms,
                    remaining, idx, batch, pending, done_futures, queue, ex, w,
                    canon, temp, combined, success_count, fail_count,
                    interrupted, dispatched, canon0, intInflight, prev, note, commits, canonInt >>
    /\ AuthorKept

\* lines 270, 307, 373: combine_all_csvs(), then main returns; the
\* interpreter exits at once unless pool threads are still running (after
\* Interrupt_Again), which it joins first
Combine ==
    /\ mainpc = "combine"
    /\ combined' = combine_all_csvs(canon, combined)
    /\ IF queue = << >> /\ InFlight = {}
       THEN /\ EndRun("0", args)
            /\ note' = NoNote
            /\ UNCHANGED << script, db, runs, canon, temp >>
       ELSE /\ mainpc' = "atexit"
            /\ UNCHANGED << script, db, args, exit, runs, all_platforms,
                            platforms, remaining, idx, batch, pending,
                            done_futures, queue, ex, w, canon, temp,
                            success_count, fail_count, interrupted,
                            dispatched, canon0, intInflight, prev, note,
                            commits, canonInt, author >>

\* main has returned (line 374) while pool threads run: the interpreter
\* joins the threads of the ThreadPoolExecutor of line 338, which finish
\* every submitted work item, and exits with status 0
AtExit ==
    /\ script = "rom"
    /\ mainpc = "atexit"
    /\ queue = << >>
    /\ InFlight = {}
    /\ EndRun("0", args)
    /\ note' = NoNote
    /\ UNCHANGED << script, db, runs, canon, temp, combined >>

\* An exception nothing catches ends the run with a traceback: the
\* UnboundLocalError of line 241 (rom, status 1), the KeyboardInterrupt (emu)
Traceback ==
    /\ mainpc = "traceback"
    /\ EndRun(IF script = "rom" THEN "1" ELSE "130", args)
    /\ note' = NoNote
    /\ UNCHANGED << script, db, runs, canon, temp, combined >>

\* SIGKILL of the orchestrator and its workers, at any point of a run
Kill ==
    /\ mainpc # "idle"
    /\ EndRun("killed", args)
    /\ note' = NoNote
    /\ temp' = [k \in Keys |-> IF temp[k] = NoFile THEN NoFile ELSE FileStale]
    /\ UNCHANGED << script, db, runs, canon, combined >>

Next ==
    \/ \E a \in Args, db_ok \in BOOLEAN : RomStart(a, db_ok)
    \/ \E a \in EmuArgs, db_ok \in BOOLEAN : EmuStart(a, db_ok)
    \/ Seq_Next
    \/ \E n \in Names : Seq_Collect(n)
    \/ Par_Batch
    \/ Par_Wait
    \/ \E n \in Names : Par_Process(n)
    \/ \E n \in Names : Pool_Start(n)
    \/ \E n \in Names : PP_Popen(n)
    \/ \E n \in Names, rc \in ReturnCodes : PP_Validate(n, rc)
    \/ \E n \in Names : PP_Rename(n)
    \/ \E n \in Names : PP_Timeout(n)
    \/ \E n \in Names, c \in Outputs : Worker_Write(n, c)
    \/ \E n \in Names : Emu_PP_Run(n)
    \/ \E n \in Names, rc \in ReturnCodes : Emu_PP_Result(n, rc)
    \/ \E n \in Names : Emu_PP_Timeout(n)
    \/ Emu_Submit
    \/ \E n \in Names : Emu_Completed(n)
    \/ Interrupt
    \/ Emu_Interrupt
    \/ Emu_Shutdown
    \/ Shutdown
    \/ Interrupt_Again
    \/ cleanup_temp_files
    \/ Summary
    \/ Combine
    \/ AtExit
    \/ Traceback
    \/ Kill

Spec ==
    Init /\ [][Next]_vars

\* the steps the orchestrator, its pool threads and its timers take
RunStep ==
    \/ Seq_Next
    \/ \E n \in Names : Seq_Collect(n)
    \/ Par_Batch
    \/ Par_Wait
    \/ \E n \in Names : Par_Process(n)
    \/ \E n \in Names : Pool_Start(n)
    \/ \E n \in Names : PP_Popen(n)
    \/ \E n \in Names, rc \in ReturnCodes : PP_Validate(n, rc)
    \/ \E n \in Names : PP_Rename(n)
    \/ \E n \in Names : PP_Timeout(n)
    \/ \E n \in Names : Emu_PP_Run(n)
    \/ \E n \in Names, rc \in ReturnCodes : Emu_PP_Result(n, rc)
    \/ \E n \in Names : Emu_PP_Timeout(n)
    \/ Emu_Submit
    \/ \E n \in Names : Emu_Completed(n)
    \/ Summary
    \/ Combine

\* The main thread and the pool threads keep running, and a worker exits or
\* its timeout expires.
\* (one run, from an empty store, is followed)
LiveSpec ==
    LiveInit /\ [][Next]_vars /\ WF_vars(RunStep)

(***************************************************************************)
(* Properties                                                              *)
(***************************************************************************)
Workers ==
    { n \in Names : w[n].st = "running" }

\* a run without --platform, --dry-run and --combine-only is under way
NormalRun ==
    /\ mainpc # "idle"
    /\ args.platform = None
    /\ ~args.dry_run
    /\ ~args.combine_only

\* C1: in scrape_rom_sources.py every file at a canonical path is a complete
\* file that passes the validation (all required columns, at least one data
\* record), in every reachable state; and every worker is told the temp
\* path, never the canonical path.
C1_CanonicalValid ==
    script = "rom" =>
        /\ \A k \in Keys : canon[k] # NoFile => IsValid(canon[k])
        /\ \A n \in Workers : w[n].told = "tmp"

\* the worker is told the temp path (the part of C1 that holds)
C1_ToldTemp ==
    script = "rom" => \A n \in Workers : w[n].told = "tmp"

\* an invalid file at a canonical path
C1_InvalidCommitted ==
    /\ script = "rom"
    /\ \E k \in Keys : canon[k] # NoFile /\ ~IsValid(canon[k])

\* C2: when the worker exits before the timeout, process_platform goes on to
\* the commit iff the temp file exists and is valid; the commit then returns
\* success, the committed file is the validated one and the reported count
\* is its number of data records; nothing else changes a canonical file.
C2_CommitIffValid ==
    [][script = "rom" =>
        /\ \A n \in Names :
            /\ (/\ ex[n].pc = "comm"
                /\ \/ ex'[n].pc = "validated"
                   \/ ex'[n].pc = "ret" /\ ex'[n].msg \in {"noout", "invalid"})
               => (ex'[n].pc = "validated" <=> IsValid(temp[K(n)]))
            /\ (ex[n].pc = "validated" /\ ex'[n].pc = "ret")
               => /\ ex'[n].msg = "created"
                  /\ IsValid(canon'[K(n)])
                  /\ canon'[K(n)].nrows = ex'[n].rows
        /\ canon' # canon
           => \E n \in Names : /\ ex[n].pc = "validated"
                               /\ ex'[n].pc = "ret"
                               /\ ex'[n].msg = "created"]_vars

\* a success whose reported count is not the committed file's
C2_WrongCount ==
    /\ script = "rom"
    /\ \E n \in Names : /\ ex[n].pc = "ret"
                        /\ ex[n].msg = "created"
                        /\ canon[K(n)].nrows # ex[n].rows

\* C3: at every return of process_platform (scrape_rom_sources.py) no temp
\* file of the subject's key exists; a step of the call changes a canonical
\* file only when it is the rename of a successful return.
C3_FailureLeavesNothing ==
    [][script = "rom" =>
        /\ \A n \in Names :
              (ex[n].pc \in Running /\ ex'[n].pc = "ret")
              => /\ temp'[K(n)] = NoFile
                 /\ ex'[n].msg # "created" => canon' = canon
        /\ canon' # canon
           => \E n \in Names : ex[n].pc = "validated" /\ ex'[n].msg = "created"
      ]_vars

\* a timeout of a subject whose artifact existed: nothing left, nothing lost
C3_Witness ==
    /\ script = "rom"
    /\ \E n \in Names : /\ ex[n].pc = "ret"
                        /\ ex[n].msg = "timeout"
                        /\ temp[K(n)] = NoFile
                        /\ canon[K(n)] # NoFile
                        /\ canon = canon0

\* C4 as stated: after a normal run in which every dispatched platform
\* succeeded, the next normal run dispatches nothing and changes no
\* artifact; and a normal run dispatches no platform whose artifact existed
\* when the run started.
C4_Resumption ==
    /\ NormalRun /\ prev.ok => dispatched = << >> /\ canon = canon0
    /\ NormalRun => \A n \in Range(dispatched) : canon0[K(n)] = NoFile

\* C4 amended: the same, when the first run was not cut short by --limit.
C4_ResumptionNoLimit ==
    /\ NormalRun /\ prev.ok /\ prev.full
       => dispatched = << >> /\ canon = canon0
    /\ NormalRun => \A n \in Range(dispatched) : canon0[K(n)] = NoFile

\* the second run, with the artifacts of the first, has nothing to do
C4_Witness ==
    /\ script = "rom"
    /\ NormalRun
    /\ prev.ok
    /\ prev.full
    /\ mainpc = "combine"
    /\ \E k \in Keys : canon[k] # NoFile

\* C5: never more than args.parallel invocations of process_platform, and
\* never more than args.parallel worker processes, at once; in sequential
\* mode at most one invocation has been entered and not yet collected.
C5_AtMostKInFlight ==
    /\ Cardinality(InFlight) <= args.parallel
    /\ Cardinality(Workers) <= args.parallel
    /\ mainpc = "seq" => Cardinality(Current) <= 1

\* the pool is full and a submitted platform waits for a thread
C5_Witness ==
    /\ args.parallel = 2
    /\ Cardinality(Workers) = 2
    /\ queue # << >>

C6_AtWait ==
    (script = "rom" /\ mainpc = "wait" /\ ~interrupted)
    => \/ Cardinality(pending) = args.parallel
       \/ idx = Len(remaining)

C6_Refill ==
    (/\ script = "rom"
     /\ mainpc = "for"
     /\ mainpc' \in {"for", "wait"}
     /\ done_futures' # done_futures)
    => IF idx < Len(remaining)
       THEN /\ idx' = idx + 1
            /\ dispatched' = Append(dispatched, remaining[idx + 1])
       ELSE dispatched' = dispatched

\* C6: in the parallel loop of scrape_rom_sources.py each processed
\* completion submits the next platform of remaining_names if there is one;
\* whenever the loop is about to wait, args.parallel futures are pending or
\* every platform has been submitted.
C6_Saturation ==
    []C6_AtWait /\ [][C6_Refill]_vars

\* the loop waits again after a refill, with the pool saturated
C6_Witness ==
    /\ script = "rom"
    /\ mainpc = "wait"
    /\ args.parallel = 2
    /\ Cardinality(pending) = 2
    /\ idx = 3
    /\ \E n \in Names : ex[n].pc = "done"

\* C7: after an interrupt of scrape_rom_sources.py no invocation that was
\* in flight at the interrupt commits, and once main has handled the
\* interrupt none of their workers runs.
C7_InterruptStopsExecutors ==
    (script = "rom" /\ interrupted) =>
        \A n \in intInflight :
            /\ ~(ex[n].pc = "ret" /\ ex[n].msg = "created")
            /\ mainpc \in {"except", "summary", "combine", "traceback"}
               => w[n].st = "none"

\* an invocation in flight at the interrupt has committed
C7_CommittedAfterInterrupt ==
    /\ script = "rom"
    /\ interrupted
    /\ \E n \in intInflight : ex[n].pc = "ret" /\ ex[n].msg = "created"

\* C8: once main of scrape_rom_sources.py has handled an interrupt (from
\* the summary on) no temp file exists.
C8_NoTempAfterInterrupt ==
    (script = "rom" /\ interrupted /\ mainpc \in {"summary", "combine"})
    => \A k \in Keys : temp[k] = NoFile

\* the summary of an interrupted run that had invocations in flight
C8_Witness ==
    /\ script = "rom"
    /\ interrupted
    /\ mainpc = "summary"
    /\ intInflight # {}

\* main has handled a second interrupt while a worker was running, the
\* cleanup pass has run, and at the summary the worker has written its temp
\* file
C8_TempAtSummary ==
    /\ script = "rom"
    /\ interrupted
    /\ mainpc = "summary"
    /\ \E n \in Workers : temp[K(n)] # NoFile /\ author[K(n)] = n

\* C9: after an interrupt of scrape_rom_sources.py no further platform is
\* submitted and no worker process is spawned.
C9_NoDispatchAfterInterrupt ==
    [][(script = "rom" /\ interrupted) =>
        /\ mainpc' # "idle" => dispatched' = dispatched
        /\ \A n \in Names : w'[n].st = "running" => w[n].st = "running"]_vars

\* a worker that did not run at the interrupt runs after it
C9_SpawnedAfterInterrupt ==
    /\ script = "rom"
    /\ interrupted
    /\ \E n \in Workers : n \notin intInflight

C10_State ==
    (~interrupted /\ mainpc = "summary") => dispatched = remaining

C10_Dispatching ==
    /\ mainpc \in {"seq", "batch", "wait", "for", "submit", "as_completed"}
    /\ ~interrupted

C10_SummaryOrCancelled ==
    \/ mainpc = "summary" /\ ~interrupted
    \/ interrupted
    \/ exit = "killed"

C10_Exit ==
    (mainpc # "idle" /\ mainpc' = "idle" /\ ~interrupted /\ exit' # "killed")
    => mainpc = "combine" /\ exit' = "0"

\* C10: a run that is not interrupted or killed reaches its summary,
\* whatever the outcomes of its platforms; at the summary every platform
\* of remaining_names has been dispatched; and a run that got past its
\* setup ends only after the summary, with status 0 (status 1 comes from
\* the setup alone, before any dispatch).
C10_FailureIsolation ==
    /\ []C10_State
    /\ [][C10_Exit]_vars
    /\ C10_Dispatching ~> C10_SummaryOrCancelled

\* the summary of an uninterrupted run with failures and successes
C10_Witness ==
    /\ ~interrupted
    /\ mainpc = "summary"
    /\ fail_count >= 1
    /\ success_count >= 1
    /\ success_count + fail_count = Len(remaining)

\* a kill of scrape_rom_sources.py changes no file at a canonical path
C11_KillAtomic ==
    (script = "rom" /\ mainpc # "idle" /\ exit' = "killed")
    => /\ canon' = canon
       /\ \A n \in Names : canon[K(n)] = NoFile => ~is_done(n)'

\* once a later run of scrape_rom_sources.py has ended, no temp file
\* orphaned by a kill is left
C11_Purged ==
    (script = "rom" /\ mainpc = "idle" /\ exit = "0")
    => \A k \in Keys : temp[k] # FileStale

\* C11: a kill of the orchestrator before the rename leaves no file at the
\* canonical path of a subject that had none, so the subject is still
\* pending, and the temp file the kill orphaned is removed by the time the
\* next run has ended, whichever mode and flags that run has.
C11_CrashRecovery ==
    /\ [][C11_KillAtomic]_vars
    /\ []C11_Purged

\* a run has ended with status 0 and the temp file orphaned by the kill of
\* an earlier run is still in the output directory
C11_OrphanSurvives ==
    /\ script = "rom"
    /\ mainpc = "idle"
    /\ exit = "0"
    /\ \E k \in Keys : temp[k] = FileStale /\ canon[k] = NoFile

\* the artifact files whose reading raises before the end of the file
C12_Failing ==
    { k \in Keys : canon[k] # NoFile /\ canon[k].err }

\* C12: when reading an artifact file fails during combine_all_csvs, the
\* combined file the call leaves holds no record of that file and every
\* record of every other artifact file, and the call returns (status 0).
C12_Step ==
    (mainpc = "combine" /\ exit' # "killed" /\ C12_Failing # {})
    => /\ mainpc' = "idle" /\ exit' = "0"
       /\ \A j \in 1..Len(combined'.rows) :
              combined'.rows[j].src \notin C12_Failing
       /\ \A k \in Keys : \A i \in 1..canon[k].nrows :
              (canon[k] # NoFile /\ k \notin C12_Failing)
              => \E j \in 1..Len(combined'.rows) :
                     combined'.rows[j].src = k /\ combined'.rows[j].i = i

C12_AggregationRobust ==
    [][C12_Step]_vars

\* the combined file holds a record of an artifact file whose reading
\* failed
C12_PartialRecordsKept ==
    /\ mainpc = "idle"
    /\ exit = "0"
    /\ \E j \in 1..Len(combined.rows) :
           /\ canon[combined.rows[j].src] # NoFile
           /\ canon[combined.rows[j].src].err

\* the records that can be read from the artifact files, as (file, index)
C13_Inputs ==
    UNION { { << k, i >> : i \in 1..canon[k].nrows } :
            k \in { j \in Keys : canon[j] # NoFile } }

\* C13: combine_all_csvs writes one record per record read from the
\* artifact files at the canonical paths and none from a temp file or from
\* the combined file; every record written has exactly the fields of the
\* canonical header, empty where the source file has no such column; the
\* header written is the canonical one; the returned count is the number
\* of records written (0, nothing written, when there is no record).
C13_Step ==
    (mainpc = "combine" /\ exit' = "0")
    => LET out == combined'.rows
       IN  /\ combine_count(canon, combined) = Cardinality(C13_Inputs)
           /\ C13_Inputs = {} => combined' = combined
           /\ C13_Inputs # {} =>
                 /\ combined'.hdr = Fieldnames
                 /\ Len(out) = Cardinality(C13_Inputs)
                 /\ { << out[j].src, out[j].i >> : j \in 1..Len(out) }
                        = C13_Inputs
                 /\ \A j \in 1..Len(out) :
                        /\ DOMAIN out[j].fields = Range(Fieldnames)
                        /\ \A f \in Range(Fieldnames) :
                               out[j].fields[f]
                                   <=> f \in Cols(canon[out[j].src])

C13_CombineProjection ==
    [][C13_Step]_vars

\* a combined file written from an artifact with a column outside the
\* schema, while a temp file is in the directory
C13_Witness ==
    /\ mainpc = "idle"
    /\ exit = "0"
    /\ combined.rows # << >>
    /\ \E k \in Keys : canon[k] # NoFile /\ ~(Cols(canon[k]) \subseteq Range(Fieldnames))
    /\ \E k \in Keys : temp[k] # NoFile
    /\ Len(combined.rows) = Cardinality(C13_Inputs)

\* the (file, index) pairs of the records of a combined file
C14_Records(file) ==
    { << file.rows[j].src, file.rows[j].i >> : j \in 1..Len(file.rows) }

\* C14: after every completed combine_all_csvs the combined file holds
\* exactly the records of the artifact files present, whatever it held
\* before and also when the artifacts hold no record, and a second call
\* over the unchanged store leaves the same file.
C14_Step ==
    (mainpc = "combine" /\ exit' = "0")
    => /\ C14_Records(combined') = C13_Inputs
       /\ combine_all_csvs(canon, combined') = combined'

C14_PureProjection ==
    [][C14_Step]_vars

\* combine_all_csvs has returned, no artifact holds a record and the
\* combined file still holds the records of an earlier run
C14_CarriedOver ==
    /\ mainpc = "idle"
    /\ exit = "0"
    /\ prev.full
    /\ C13_Inputs = {}
    /\ combined.rows # << >>

\* the platform is in the catalog and fails the normal filters
C15_Forced(p) ==
    \E i \in 1..Len(db) :
        /\ db[i].name = p
        /\ p \in SKIP_PLATFORMS \/ db[i].games < args.min_games

\* C15: in scrape_rom_sources.py a run with --platform fails with
\* "Platform not found" (status 1, nothing dispatched) only for a name that
\* is not in the catalog; a run that goes on has a name of the catalog as
\* its only subject, and it prints the note exactly when that subject is
\* in SKIP_PLATFORMS or below --min-games.
C15_Override ==
    script = "rom" =>
    /\ note[1] = "Platform not found"
       => /\ mainpc = "idle" /\ exit = "1"
          /\ note[2] \notin Range(RowNames(db))
    /\ (mainpc # "idle" /\ ~args.combine_only /\ args.platform # None)
       => /\ args.platform \in Range(RowNames(db))
          /\ remaining = << args.platform >>
          /\ note[1] = "Note: normally skipped" <=> C15_Forced(args.platform)

\* --platform named a platform of the catalog that is below --min-games
\* and the run ended with "Platform not found", status 1
C15_BelowMinNotFound ==
    /\ script = "rom"
    /\ mainpc = "idle"
    /\ exit = "1"
    /\ note = << "Platform not found", NZx >>
    /\ NZx \in Range(RowNames(db))

\* the catalog rows with enough games that are not skipped, in catalog order
C16_Eligible ==
    LET Test(r) == r.games >= args.min_games /\ r.name \notin SKIP_PLATFORMS
    IN  SelectSeq(db, Test)

\* the eligible platforms without an artifact when the run started
C16_Pending ==
    LET Test(r) == canon0[K(r.name)] = NoFile
    IN  RowNames(SelectSeq(C16_Eligible, Test))

C16_Ascending(s) ==
    \A i, j \in 1..Len(s) : i < j => SeqLess(s[i], s[j])

\* the claim as stated: in a run without --platform the sequence handed to
\* the scheduling loops is the whole pending sequence
C16_Enumerator ==
    (script = "rom" /\ mainpc # "idle" /\ ~args.combine_only)
    => /\ platforms = C16_Eligible
       /\ C16_Ascending(RowNames(platforms))
       /\ args.platform = None => remaining = C16_Pending

\* C16: in scrape_rom_sources.py the eligible sequence is exactly the
\* catalog rows with games >= --min-games and not in SKIP_PLATFORMS, in
\* catalog order (ascending by name); without --platform the sequence
\* handed to the scheduling loops is the eligible platforms for which
\* is_done is false, in that order, cut to its first N under --limit N > 0.
C16_EnumeratorLimit ==
    (script = "rom" /\ mainpc # "idle" /\ ~args.combine_only)
    => /\ platforms = C16_Eligible
       /\ C16_Ascending(RowNames(platforms))
       /\ args.platform = None
          => remaining = IF args.limit > 0
                         THEN Take(C16_Pending, args.limit)
                         ELSE C16_Pending

\* a run whose catalog has filtered rows and whose pending sequence is cut
\* by nothing but is_done
C16_Witness ==
    /\ script = "rom"
    /\ NormalRun
    /\ args.limit = 0
    /\ Len(platforms) < Len(db)
    /\ remaining # << >>
    /\ remaining = C16_Pending

\* C17: no two distinct platforms of the sequence handed to the scheduling
\* loops have the same platform_to_filename key.
C17_DistinctKeys ==
    \A i, j \in 1..Len(remaining) :
        remaining[i] # remaining[j] => K(remaining[i]) # K(remaining[j])

\* two platforms that differ only in punctuation have both been dispatched
\* in one run, with one artifact path between them
C17_Collision ==
    /\ NSC \in Range(dispatched)
    /\ NSdC \in Range(dispatched)
    /\ K(NSC) = K(NSdC)
    /\ platform_to_filename(NSC) = platform_to_filename(NSdC)

\* an executor step removes or renames the temp file at a path that another
\* executor in flight also uses
C18_Interference ==
    \E n, m \in InFlight :
        /\ n # m
        /\ K(n) = K(m)
        /\ ex'[n] # ex[n]
        /\ ex'[m] = ex[m]
        /\ temp[K(m)] # NoFile
        /\ temp'[K(m)] = NoFile

\* C18: in a run of scrape_rom_sources.py with --parallel > 1 no two
\* executors in flight have the same temp path or the same artifact path,
\* and no executor step removes or renames the temp file of another
\* executor in flight.
C18_State ==
    (script = "rom" /\ mainpc # "idle" /\ args.parallel > 1)
    => \A n, m \in InFlight : n # m => K(n) # K(m)

C18_NoSharedFile ==
    /\ []C18_State
    /\ [][script = "rom" => ~C18_Interference]_vars

\* two executors in flight with one temp path, both workers running and the
\* temp file written
C18_SharedTemp ==
    /\ script = "rom"
    /\ args.parallel > 1
    /\ NSC \in InFlight
    /\ NSdC \in InFlight
    /\ w[NSC].st = "running"
    /\ w[NSdC].st = "running"
    /\ temp[K(NSC)] # NoFile

\* the call of process_platform for n has returned its timeout failure
C19_TimedOut(n) ==
    ex[n].pc = "ret" /\ ex[n].msg = "timeout"

\* the step on which process_platform returns the timeout failure: the
\* worker is gone, the temp file is removed, no canonical file is touched
C19_Step ==
    \A n \in Names :
        (script = "rom" /\ ~C19_TimedOut(n) /\ C19_TimedOut(n)')
        => /\ w[n].st = "running"
           /\ w'[n] = NoProc
           /\ temp'[K(n)] = NoFile
           /\ canon' = canon

\* a platform that was pending when the run started is still pending when
\* its call has timed out
C19_StillPending ==
    \A n \in Names :
        (script = "rom" /\ C19_TimedOut(n) /\ canon0[K(n)] = NoFile)
        => ~is_done(n)

\* C19: when process_platform of scrape_rom_sources.py times out, the
\* worker is killed and gone, the temp file is removed, the call returns
\* the timeout failure and commits nothing, and the platform is still
\* pending (is_done false) afterwards.
C19_Timeout ==
    /\ [][C19_Step]_vars
    /\ []C19_StillPending

\* the call for a platform that was pending at the start of the run has
\* timed out and is_done is true for it
C19_DoneAfterTimeout ==
    \E n \in Names :
        /\ script = "rom"
        /\ C19_TimedOut(n)
        /\ canon0[K(n)] = NoFile
        /\ is_done(n)

\* the call of process_platform for n has returned a failure
C20_Failed(n) ==
    ex[n].pc = "ret" /\ ex[n].msg # "created"

\* no platform is dispatched twice in one run
C20_OncePerRun ==
    \A i, j \in 1..Len(dispatched) :
        i # j => dispatched[i] # dispatched[j]

\* C20: in a run of scrape_rom_sources.py every platform is executed at
\* most once, also after it failed, and a platform that was pending when
\* the run started and whose execution failed has no file at its canonical
\* path, so that is_done is false for it and the next normal run over the
\* same catalog has it in its pending sequence again.
C20_NoRetry ==
    script = "rom" =>
    /\ C20_OncePerRun
    /\ \A n \in Names :
           (C20_Failed(n) /\ canon0[K(n)] = NoFile)
           => canon[K(n)] = NoFile /\ ~is_done(n)

\* the execution of a platform that was pending at the start of the run has
\* failed validation and a file is at its canonical path
C20_FailedButDone ==
    \E n \in Names :
        /\ script = "rom"
        /\ ex[n].pc = "ret"
        /\ ex[n].msg = "invalid"
        /\ canon0[K(n)] = NoFile
        /\ canon[K(n)] # NoFile

\* the platforms dispatched so far are the first ones of the sequence the
\* run was handed, in its order, each once
C21_Prefix ==
    /\ Len(dispatched) <= Len(remaining)
    /\ dispatched = SubSeq(remaining, 1, Len(dispatched))

\* the work items no pool thread has taken yet are the last ones submitted,
\* in submission order: the threads take them in that order
C21_QueueOrder ==
    /\ Len(queue) <= Len(dispatched)
    /\ queue = SubSeq(dispatched, Len(dispatched) - Len(queue) + 1,
                      Len(dispatched))
    /\ \A i \in 1..Len(dispatched) :
           ex[dispatched[i]].pc = "queued" <=> i > Len(dispatched) - Len(queue)

\* C21: in every run of either script the platforms are dispatched in the
\* order of the pending sequence (sequential calls, submissions to the
\* pool and the pool's starts alike), and when an uninterrupted run
\* reaches its summary every platform of the sequence has been dispatched
\* exactly once.
C21_DispatchOrder ==
    mainpc # "idle" =>
    /\ C21_Prefix
    /\ C21_QueueOrder
    /\ (mainpc \in {"summary", "combine"} /\ ~interrupted)
       => dispatched = remaining

\* a parallel run in which a later platform has returned while an earlier
\* one is still in flight, and a third waits in the queue behind them
C21_Witness ==
    /\ args.parallel > 1
    /\ Len(dispatched) = 3
    /\ ex[dispatched[1]].pc \in Running
    /\ ex[dispatched[2]].pc = "ret"
    /\ ex[dispatched[3]].pc = "queued"

RECURSIVE C22_Sum(_, _)
C22_Sum(f, S) ==
    IF S = {} THEN 0
    ELSE LET k == CHOOSE j \in S : TRUE
         IN  f[k] + C22_Sum(f, S \ {k})

\* the executions of this run that returned success: one rename each
C22_Successes ==
    C22_Sum(commits, Keys)

\* the artifact files this run has committed
C22_Artifacts ==
    { k \in Keys : commits[k] > 0 }

\* the counts at the summary of an uninterrupted run add up to the
\* dispatched platforms, one success per execution that returned success
C22_Counts ==
    (script = "rom" /\ mainpc = "summary" /\ ~interrupted)
    => /\ success_count + fail_count = Len(dispatched)
       /\ success_count = C22_Successes
       /\ fail_count = Len(dispatched) - C22_Successes

\* C22: at the summary of an uninterrupted run of scrape_rom_sources.py,
\* succeeded + failed is the number of platforms dispatched, succeeded is
\* the number of executions that returned success and the number of
\* artifact files the run committed, failed the number of executions that
\* returned failure.
C22_Summary ==
    /\ C22_Counts
    /\ (script = "rom" /\ mainpc = "summary" /\ ~interrupted)
       => /\ success_count = Cardinality(C22_Artifacts)
          /\ \A k \in C22_Artifacts : canon[k] # NoFile

\* the summary of an uninterrupted run reports two successes and the run
\* has committed one artifact file
C22_TwoSuccessesOneFile ==
    /\ script = "rom"
    /\ mainpc = "summary"
    /\ ~interrupted
    /\ success_count = 2
    /\ Cardinality(C22_Artifacts) = 1

\* C23: in both scripts an interrupt does not increment the failed count,
\* neither when it arrives nor afterwards, and the interrupted run ends the
\* way an uninterrupted one does: through its summary and combine step,
\* with status 0, not with a traceback.
C23_Step ==
    /\ (interrupted' /\ mainpc' # "idle") => fail_count' = fail_count
    /\ (interrupted /\ mainpc # "idle" /\ mainpc' = "idle"
          /\ exit' # "killed")
       => mainpc = "combine" /\ exit' = "0"

C23_InterruptNotAFailure ==
    [][C23_Step]_vars

\* an interrupted run of scrape_all_emulators.py about to end with the
\* traceback of the KeyboardInterrupt
C23_EmuTraceback ==
    /\ script = "emu"
    /\ interrupted
    /\ mainpc = "traceback"
    /\ dispatched # << >>

\* C24: when an interrupted run of scrape_rom_sources.py ends, every file
\* that was at a canonical path when the interrupt arrived is still there
\* with the same content.
C24_Step ==
    (script = "rom" /\ interrupted /\ mainpc # "idle" /\ mainpc' = "idle"
       /\ exit' # "killed")
    => \A k \in Keys : canonInt[k] # NoFile => canon'[k] = canonInt[k]

C24_ArtifactsIntact ==
    [][C24_Step]_vars

\* an interrupted run is about to end and an artifact that was in place
\* when the interrupt arrived has other content now
C24_ArtifactReplaced ==
    /\ script = "rom"
    /\ interrupted
    /\ mainpc = "combine"
    /\ \E k \in Keys : canonInt[k] # NoFile /\ canon[k] # canonInt[k]

\* C25: in scrape_all_emulators.py a running worker is told a temp path,
\* never the final artifact path, and a platform without an artifact at the
\* start of the run whose execution has failed, timed out or been
\* interrupted has no file at its final path, so that it is still pending.
C25_FinalIffSuccess ==
    script = "emu" =>
    /\ \A n \in Names : w[n].st = "running" => w[n].told = "tmp"
    /\ \A n \in Names :
           (/\ canon0[K(n)] = NoFile
            /\ \/ ex[n].pc = "ret" /\ ex[n].msg # "created"
               \/ ex[n].pc = "aborted")
           => canon[K(n)] = NoFile /\ ~is_done(n)

\* the execution of a platform without an artifact has timed out and a file
\* the worker wrote is at its final path: is_done is true for it
C25_TimedOutButDone ==
    /\ script = "emu"
    /\ canon0[K(N3D)] = NoFile
    /\ ex[N3D].pc = "ret"
    /\ ex[N3D].msg = "timeout"
    /\ is_done(N3D)

\* C26: the combined file combine_all_csvs of scrape_rom_sources.py writes
\* holds the records of the valid artifact files, all of them, and no
\* record of a file that is not a valid artifact.
C26_Step ==
    (script = "rom" /\ mainpc = "combine" /\ exit' = "0" /\ C13_Inputs # {})
    => /\ \A j \in 1..Len(combined'.rows) :
              IsValid(canon[combined'.rows[j].src])
       /\ \A k \in Keys : \A i \in 1..canon[k].nrows :
              IsValid(canon[k])
              => \E j \in 1..Len(combined'.rows) :
                     combined'.rows[j].src = k /\ combined'.rows[j].i = i

C26_ValidOnly ==
    [][C26_Step]_vars

\* the combined file holds a record of a file whose header lacks a
\* required column, next to the records of a valid artifact
C26_InvalidRowsCombined ==
    /\ script = "rom"
    /\ mainpc = "idle"
    /\ exit = "0"
    /\ \E j \in 1..Len(combined.rows) :
           /\ canon[combined.rows[j].src] # NoFile
           /\ ~(Range(CSV_HEADER) \subseteq Cols(canon[combined.rows[j].src]))
    /\ \E j \in 1..Len(combined.rows) :
           IsValid(canon[combined.rows[j].src])

\* the subjects is_done reports as done
C27_Done ==
    { n \in Names : is_done(n) }

\* the step is part of a dry run: the return of lines 311-319 (emu: 268-275),
\* or any step of a run started with --dry-run, the SIGKILL aside
C27_DryStep ==
    /\ exit' # "killed"
    /\ \/ mainpc = "idle" /\ note'[1] = DryRunLine
       \/ args.dry_run
       \/ args'.dry_run

\* C27: in both scripts a run with --dry-run executes nothing: no step of
\* it spawns a worker, dispatches a subject, writes or removes a temp file,
\* or creates, changes or deletes an artifact, and the set of done subjects
\* is the same after every step as before it.
C27_DryRun ==
    [][ C27_DryStep
        => /\ canon' = canon
           /\ temp' = temp
           /\ \A n \in Names : w[n] = NoProc /\ w'[n] = NoProc
           /\ dispatched' = << >>
           /\ \A k \in Keys : commits'[k] = 0
           /\ C27_Done' = C27_Done ]_vars

\* a dry run over a store with an artifact, a leftover temp file and a
\* pending subject has listed that subject and returned with status 0
C27_DryRunDone ==
    /\ mainpc = "idle"
    /\ exit = "0"
    /\ note[1] = DryRunLine
    /\ ~is_done(note[2])
    /\ \E k \in Keys : canon[k] # NoFile
    /\ \E k \in Keys : temp[k] # NoFile

\* communicate() of executor n returns in this step: the worker has exited
\* by itself (no timeout, no interrupt) and process_platform has concluded
C28_Exited(n) ==
    /\ script = "rom"
    /\ ex[n].pc = "comm"
    /\ w[n].st = "running"
    /\ w'[n] = NoProc
    /\ \/ ex'[n].pc = "validated"
       \/ ex'[n].pc = "ret" /\ ex'[n].msg \in {"noout", "invalid"}

\* what executor n is left with after the conclusion v on the temp file c
C28_After(n, c, v) ==
    IF v = "validated" THEN [pc |-> "validated", rows |-> c.nrows, msg |-> ""]
    ELSE [pc |-> "ret", rows |-> 0, msg |-> v]

\* C28: in scrape_rom_sources.py the exit status of the worker does not
\* enter the verdict: when a worker has exited, process_platform concludes
\* what the temp file alone gives for a zero and for a non-zero status
\* alike, and a validated temp file is the one the commit then renames.
C28_ExitCodeInformational ==
    [][ \A n \in Names :
          C28_Exited(n)
          => /\ \A rc \in ReturnCodes :
                  ex'[n] = C28_After(n, temp[K(n)], validate_result(temp[K(n)], rc))
             /\ ex'[n].pc = "validated" <=> IsValid(temp[K(n)])
             /\ canon' = canon ]_vars

\* a worker has exited, with either status, leaving a valid temp file:
\* process_platform has validated it and is about to commit it, while
\* another executor of the run returned failure for a worker without output
C28_ValidatedAfterExit ==
    /\ script = "rom"
    /\ \E n, m \in Names :
         /\ ex[n].pc = "validated"
         /\ w[n] = NoProc
         /\ IsValid(temp[K(n)])
         /\ ex[m].pc = "ret"
         /\ ex[m].msg = "noout"

\* the steps a run takes by itself, those after an interrupt included: the
\* main thread and the pool threads keep running, a worker exits or its
\* timeout expires
C29_Progress ==
    \/ RunStep
    \/ Shutdown
    \/ cleanup_temp_files
    \/ Emu_Shutdown
    \/ AtExit
    \/ Traceback

C29_TermSpec ==
    LiveInit /\ [][Next]_vars /\ WF_vars(C29_Progress)

\* every run of scrape_rom_sources.py ends, interrupted or not
C29_Ends ==
    (script = "rom" /\ mainpc # "idle") ~> (mainpc = "idle")

\* C29: a run of scrape_rom_sources.py that has dispatched a subject ends,
\* the SIGKILL aside, only after the scheduler has reported its summary
\* (line 370), interrupted or not; after an interrupt nothing further is
\* dispatched.
C29_SummaryBeforeEnd ==
    [][ /\ (script = "rom" /\ dispatched # << >> /\ mainpc # "idle"
              /\ mainpc' = "idle" /\ exit' # "killed")
           => mainpc = "combine"
        /\ (script = "rom" /\ interrupted /\ mainpc' # "idle")
           => dispatched' = dispatched ]_vars

\* an interrupted run of scrape_rom_sources.py is about to end with the
\* traceback of the UnboundLocalError of line 241: its only dispatched
\* executor has not returned and the summary is not reported
C29_EndsWithoutSummary ==
    /\ script = "rom"
    /\ interrupted
    /\ mainpc = "traceback"
    /\ Len(dispatched) = 1
    /\ success_count + fail_count = 0

\* the pending sequence of the run: the platform named by --platform, or
\* the eligible platforms without an artifact when the run started
C30_PendingSeq ==
    IF args.platform # None THEN << args.platform >> ELSE C16_Pending

\* the first n elements of s
C30_FirstN(s, n) ==
    [i \in 1..(IF n < Len(s) THEN n ELSE Len(s)) |-> s[i]]

\* C30: in a run of scrape_rom_sources.py with --limit N > 0 at most N
\* platforms are dispatched, and the ones dispatched are the first ones of
\* the pending sequence in its order; at the summary of an uninterrupted
\* run they are exactly its first N with --limit N > 0 and the whole
\* pending sequence with the limit 0.
C30_Limit ==
    (script = "rom" /\ mainpc # "idle" /\ ~args.combine_only)
    => /\ args.limit > 0 => Len(dispatched) <= args.limit
       /\ Len(dispatched) <= Len(C30_PendingSeq)
       /\ dispatched = C30_FirstN(C30_PendingSeq, Len(dispatched))
       /\ (mainpc = "summary" /\ ~interrupted)
          => dispatched = IF args.limit > 0
                          THEN C30_FirstN(C30_PendingSeq, args.limit)
                          ELSE C30_PendingSeq

\* an uninterrupted run with --limit 1 over three pending platforms has
\* reached its summary with the first of them dispatched and no other
C30_Witness ==
    /\ script = "rom"
    /\ mainpc = "summary"
    /\ ~interrupted
    /\ args.limit = 1
    /\ args.platform = None
    /\ Len(C16_Pending) = 3
    /\ dispatched = << C16_Pending[1] >>

\* executor n renames its temp file into place in this step
C31_Commits(n) ==
    /\ script = "rom"
    /\ ex[n].pc = "validated"
    /\ ex'[n].pc = "ret"
    /\ ex'[n].msg = "created"

\* no file left by an earlier run is at the temp path of an executor that
\* is past its unlink and its Popen, or at a canonical path
C31_NoStale ==
    script = "rom" =>
    /\ \A n \in Names :
         ex[n].pc \in {"comm", "validated"} => temp[K(n)] # FileStale
    /\ \A k \in Keys : canon[k] # FileStale

\* C31: in scrape_rom_sources.py the file an executor renames into place
\* was written by the worker that same call spawned, and a temp file left
\* by an earlier crashed or killed run is never validated or committed.
C31_OwnWorkerOnly ==
    /\ []C31_NoStale
    /\ [][ \A n \in Names :
             C31_Commits(n) => /\ author[K(n)] = n
                               /\ canon'[K(n)] = temp[K(n)] ]_vars

\* an executor whose worker has exited has validated, and is about to
\* commit, a temp file written by the worker of another platform
C31_OtherWorkersFile ==
    \E n \in Names :
        /\ script = "rom"
        /\ ex[n].pc = "validated"
        /\ w[n] = NoProc
        /\ temp[K(n)] # NoFile
        /\ author[K(n)] # n
        /\ author[K(n)] # None

\* the step is the cleanup pass of lines 250-253
C32_Cleanup ==
    /\ script = "rom"
    /\ mainpc = "except"
    /\ mainpc' = "summary"

\* C32: cleanup_temp_files of scrape_rom_sources.py runs only when no
\* executor of the run is in flight and no submitted work item waits for a
\* pool thread: it removes the temp file of no running worker and of no
\* executor between validation and rename.
C32_CleanupWhenQuiet ==
    [][ C32_Cleanup
        => /\ InFlight = {}
           /\ queue = << >>
           /\ Workers = {}
           /\ \A n \in Names :
                ex[n].pc \in {"comm", "validated"} => temp'[K(n)] = temp[K(n)]
      ]_vars

\* the cleanup pass has run while an executor was between validation and
\* rename and has removed its validated temp file
C32_ValidatedFileRemoved ==
    \E n \in Names :
        /\ script = "rom"
        /\ mainpc \in {"summary", "combine", "atexit"}
        /\ ex[n].pc = "validated"
        /\ temp[K(n)] = NoFile

\* C33: when a run of scrape_rom_sources.py reports its summary, cancelled
\* by an interrupt or not, the succeeded count is the number of artifacts
\* the run has committed, and the run commits no artifact after the summary.
C33_SucceededIsCommitted ==
    /\ [](script = "rom" /\ mainpc = "summary"
            => success_count = C22_Successes)
    /\ [][ (script = "rom" /\ mainpc \in {"summary", "combine", "atexit"})
             => commits' = commits \/ mainpc' = "idle" ]_vars

\* the summary of a cancelled run reports no success and the run has
\* committed an artifact
C33_CommittedNotCounted ==
    /\ script = "rom"
    /\ mainpc = "summary"
    /\ interrupted
    /\ success_count = 0
    /\ C22_Successes = 1
    /\ \E k \in Keys : commits[k] = 1 /\ canon0[k] = NoFile /\ IsValid(canon[k])

\* a run of scrape_rom_sources.py with --platform naming a platform that
\* had an artifact when the run started is under way
C34_OverrideRun ==
    /\ script = "rom"
    /\ mainpc # "idle"
    /\ ~args.combine_only
    /\ args.platform # None
    /\ canon0[K(args.platform)] # NoFile

\* the execution of n has returned failure or was aborted by the interrupt
C34_FailedOrInterrupted(n) ==
    \/ ex[n].pc = "ret" /\ ex[n].msg # "created"
    \/ ex[n] = ExAborted

\* the artifact of the named platform changes in this step only by the
\* rename of a temp file that passed the validation
C34_OnlyValidatedRename ==
    (C34_OverrideRun /\ canon'[K(args.platform)] # canon[K(args.platform)])
    => /\ ex[args.platform].pc = "validated"
       /\ ex'[args.platform].msg = "created"
       /\ IsValid(temp[K(args.platform)])
       /\ canon'[K(args.platform)] = temp[K(args.platform)]

C35_DryStep ==
    /\ script = "rom"
    /\ exit' # "killed"
    /\ \/ mainpc = "idle" /\ note'[1] = DryRunLine
       \/ args.dry_run /\ ~args.combine_only

\* C35: no step of a dry run of scrape_rom_sources.py writes, rewrites or
\* removes a file of the store: the artifacts, the temp files and the
\* combined file are after the step what they were before it, also when no
\* platform is pending.
C35_DryRunWritesNothing ==
    [][ C35_DryStep
        => /\ canon' = canon
           /\ temp' = temp
           /\ combined' = combined ]_vars

\* a dry run that found no pending platform is at its combine step and
\* the combined file it is about to write differs from the one in the store
C35_DryRunCombines ==
    /\ script = "rom"
    /\ mainpc = "combine"
    /\ args.dry_run
    /\ ~args.combine_only
    /\ remaining = << >>
    /\ combine_all_csvs(canon, combined) # combined

\* C36: a pass of cleanup_temp_files removes the files whose names match
\* ".*.tmp" and no other: every file at a canonical path and the combined
\* file are after the pass what they were before it, and no temp file
\* is left.
C36_CleanupFrame ==
    [][ (script = "rom" /\ mainpc = "except" /\ mainpc' = "summary")
        => /\ canon' = canon
           /\ combined' = combined
           /\ \A k \in Keys : temp'[k] = NoFile
           /\ \A e \in Listing(canon, combined) :
                MatchTmp(FileName(e)) <=> e.kind = "tmp" ]_vars

\* main's interrupt handler is about to run the cleanup pass over a store
\* with an artifact, the combined file and a temp file
C36_Witness ==
    /\ script = "rom"
    /\ mainpc = "except"
    /\ interrupted
    /\ \E k \in Keys : IsValid(canon[k])
    /\ combined # NoCombined
    /\ \E k \in Keys : temp[k] # NoFile

====
